---------------------------- MODULE Spec2Model ----------------------------
(***************************************************************************)
(* A model of the meme generator service (src/index.ts): the six route     *)
(* handlers of the Express application, the four service methods they      *)
(* await, and parseMemeCaption with the string and JSON operations it is   *)
(* built from.                                                             *)
(*                                                                         *)
(* Text is a sequence of one-character strings, so that replace(), trim()  *)
(* and JSON.parse() are computed character by character.  A JavaScript     *)
(* value is a record [t, b, n, s, kv] (type tag, boolean, number, string,  *)
(* members); a JavaScript number is a record [k, sg, i, f] (kind, sign,    *)
(* integer magnitude, fraction digits).  Not modelled, and absent from     *)
(* every input the model draws: exponents and \u escapes in JSON text,     *)
(* hexadecimal and exponent forms in Number(string), the sign of zero.     *)
(***************************************************************************)
EXTENDS Integers, Sequences, FiniteSets, TLC

\* env: process.env.  pc: where the handler of the request in progress awaits.
\* req: the request.  calls, replies: the upstream calls the handler has issued
\* and the responses it has got.  news, article, templateIds, caption, memeUrl:
\* the handler's locals, <<>> until assigned and <<value>> after.  responses:
\* the responses sent to the request.  raw, orig, parsed, round: a text given
\* to parseMemeCaption, where it came from, and what parsing it gave.
VARIABLES env, pc, req, calls, replies, news, article, templateIds, caption,
          memeUrl, responses, raw, orig, parsed, round

vars == <<env, pc, req, calls, replies, news, article, templateIds, caption,
          memeUrl, responses, raw, orig, parsed, round>>

pipeVars == <<env, pc, req, calls, replies, news, article, templateIds, caption,
              memeUrl, responses>>

parseVars == <<raw, orig, parsed, round>>

-----------------------------------------------------------------------------
(* Characters and text *)

QUOTE == "\""

BSLASH == "\\"

LF == "\n"

TAB == "\t"

CR == "\r"

\* Backspace and form feed, written by name.
BS == "<backspace>"

FF == "<formfeed>"

\* The grave accent, the character of a code fence (the lexer of TLA+ accepts
\* no grave accent inside a string, so the character is written by name).
TICK == "<grave>"

DigitChars == <<"0", "1", "2", "3", "4", "5", "6", "7", "8", "9">>

DigitSet == {DigitChars[d] : d \in 1..10}

DigitVal(c) == (CHOOSE d \in 1..10 : DigitChars[d] = c) - 1

\* White space as String.prototype.trim and the JSON grammar see it.
WhiteSpace == {" ", LF, TAB, CR}

StartsWithAt(s, i, pat) ==
    /\ i + Len(pat) - 1 <= Len(s)
    /\ \A k \in 1..Len(pat) : s[i + k - 1] = pat[k]

RECURSIVE ReplaceFrom(_, _, _)
ReplaceFrom(s, i, pat) ==
    IF i > Len(s) THEN <<>>
    ELSE IF StartsWithAt(s, i, pat) THEN ReplaceFrom(s, i + Len(pat), pat)
    ELSE <<s[i]>> \o ReplaceFrom(s, i + 1, pat)

\* s.replace(/pat/g, ""): every non-overlapping match, leftmost first, removed.
ReplaceAll(s, pat) == ReplaceFrom(s, 1, pat)

RECURSIVE TrimStart(_)
TrimStart(s) ==
    IF s # <<>> /\ Head(s) \in WhiteSpace THEN TrimStart(Tail(s)) ELSE s

RECURSIVE TrimEnd(_)
TrimEnd(s) ==
    IF s # <<>> /\ s[Len(s)] \in WhiteSpace
    THEN TrimEnd(SubSeq(s, 1, Len(s) - 1)) ELSE s

\* String.prototype.trim
Trim(s) == TrimEnd(TrimStart(s))

RECURSIVE Join(_, _)
Join(strs, sep) ==
    IF strs = <<>> THEN <<>>
    ELSE IF Len(strs) = 1 THEN strs[1]
    ELSE strs[1] \o sep \o Join(Tail(strs), sep)

-----------------------------------------------------------------------------
(* JavaScript numbers *)

NaN == [k |-> "nan", sg |-> 1, i |-> 0, f |-> <<>>]

Infinity(sign) == [k |-> "inf", sg |-> sign, i |-> 0, f |-> <<>>]

IntNum(z) == [k |-> "int", sg |-> IF z < 0 THEN -1 ELSE 1,
              i |-> IF z < 0 THEN -z ELSE z, f |-> <<>>]

RECURSIVE StripZeros(_)
StripZeros(ds) ==
    IF ds # <<>> /\ ds[Len(ds)] = "0"
    THEN StripZeros(SubSeq(ds, 1, Len(ds) - 1)) ELSE ds

\* The number with the given sign, integer magnitude and fraction digits.
MkNum(neg, mag, fdigits) ==
    LET fr == StripZeros(fdigits)
    IN  IF fr = <<>> THEN IntNum(IF neg THEN -mag ELSE mag)
        ELSE [k |-> "frac", sg |-> IF neg THEN -1 ELSE 1, i |-> mag, f |-> fr]

\* Number.isFinite(n) && Number.isInteger(n)
IsFiniteInteger(n) == n.k = "int"

RECURSIVE NatDigits(_)
NatDigits(m) ==
    IF m < 10 THEN <<DigitChars[m + 1]>>
    ELSE NatDigits(m \div 10) \o <<DigitChars[(m % 10) + 1]>>

RECURSIVE DigitsNat(_)
DigitsNat(ds) ==
    IF ds = <<>> THEN 0
    ELSE 10 * DigitsNat(SubSeq(ds, 1, Len(ds) - 1)) + DigitVal(ds[Len(ds)])

\* Number.prototype.toString, radix 10
NumToString(n) ==
    LET sign == IF n.sg < 0 THEN <<"-">> ELSE <<>>
    IN  CASE n.k = "nan" -> <<"N", "a", "N">>
          [] n.k = "inf" -> sign \o <<"I", "n", "f", "i", "n", "i", "t", "y">>
          [] n.k = "int" -> sign \o NatDigits(n.i)
          [] n.k = "frac" -> sign \o NatDigits(n.i) \o <<".">> \o n.f

RECURSIVE DigitsEnd(_, _)
\* The position after the run of digits of s that starts at i.
DigitsEnd(s, i) ==
    IF i <= Len(s) /\ s[i] \in DigitSet THEN DigitsEnd(s, i + 1) ELSE i

\* StringToNumber, the conversion Number(string) applies.
StringToNumber(str) ==
    LET s == Trim(str)
        signed == s # <<>> /\ s[1] \in {"-", "+"}
        neg == s # <<>> /\ s[1] = "-"
        b == IF signed THEN 2 ELSE 1
        e == DigitsEnd(s, b)
        dot == e <= Len(s) /\ s[e] = "."
        fe == IF dot THEN DigitsEnd(s, e + 1) ELSE e
    IN  IF s = <<>> THEN IntNum(0)
        ELSE IF SubSeq(s, b, Len(s)) = <<"I", "n", "f", "i", "n", "i", "t", "y">>
        THEN Infinity(IF neg THEN -1 ELSE 1)
        ELSE IF fe # Len(s) + 1 \/ (e = b /\ fe <= e + 1) THEN NaN
        ELSE MkNum(neg, DigitsNat(SubSeq(s, b, e - 1)),
                   IF dot THEN SubSeq(s, e + 1, fe - 1) ELSE <<>>)

-----------------------------------------------------------------------------
(* JavaScript values *)

Undefined == [t |-> "undefined", b |-> FALSE, n |-> NaN, s |-> <<>>, kv |-> <<>>]

JNull == [t |-> "null", b |-> FALSE, n |-> NaN, s |-> <<>>, kv |-> <<>>]

JBool(x) == [t |-> "bool", b |-> x, n |-> NaN, s |-> <<>>, kv |-> <<>>]

JNum(x) == [t |-> "num", b |-> FALSE, n |-> x, s |-> <<>>, kv |-> <<>>]

JStr(x) == [t |-> "str", b |-> FALSE, n |-> NaN, s |-> x, kv |-> <<>>]

\* An object: its members <<key, value>> in insertion order.
JObj(members) == [t |-> "obj", b |-> FALSE, n |-> NaN, s |-> <<>>, kv |-> members]

\* An array: its elements.
JArr(elems) == [t |-> "arr", b |-> FALSE, n |-> NaN, s |-> <<>>, kv |-> elems]

\* ToBoolean: what !v, v || w and if (v) test.
Truthy(v) ==
    CASE v.t \in {"undefined", "null"} -> FALSE
      [] v.t = "bool" -> v.b
      [] v.t = "num" -> ~(v.n.k = "nan" \/ (v.n.k = "int" /\ v.n.i = 0))
      [] v.t = "str" -> v.s # <<>>
      [] OTHER -> TRUE

\* a || b
Or(a, b) == IF Truthy(a) THEN a ELSE b

RECURSIVE ToStr(_)
\* String(v)
ToStr(v) ==
    CASE v.t = "undefined" -> <<"u", "n", "d", "e", "f", "i", "n", "e", "d">>
      [] v.t = "null" -> <<"n", "u", "l", "l">>
      [] v.t = "bool" -> IF v.b THEN <<"t", "r", "u", "e">>
                         ELSE <<"f", "a", "l", "s", "e">>
      [] v.t = "num" -> NumToString(v.n)
      [] v.t = "str" -> v.s
      [] v.t = "obj" -> <<"[", "o", "b", "j", "e", "c", "t", " ",
                          "O", "b", "j", "e", "c", "t", "]">>
      [] v.t = "arr" ->
           Join([k \in 1..Len(v.kv) |->
                    IF v.kv[k].t \in {"undefined", "null"} THEN <<>>
                    ELSE ToStr(v.kv[k])], <<",">>)

\* Number(v)
ToNum(v) ==
    CASE v.t = "undefined" -> NaN
      [] v.t = "null" -> IntNum(0)
      [] v.t = "bool" -> IntNum(IF v.b THEN 1 ELSE 0)
      [] v.t = "num" -> v.n
      [] OTHER -> StringToNumber(ToStr(v))

RECURSIVE Lookup(_, _, _)
Lookup(members, key, k) ==
    IF k = 0 THEN Undefined
    ELSE IF members[k][1] = key THEN members[k][2]
    ELSE Lookup(members, key, k - 1)

\* v.key for a key that no prototype defines: the last member of that name
\* of an object, undefined on any other value that has properties.
GetProp(v, key) ==
    IF v.t = "obj" THEN Lookup(v.kv, key, Len(v.kv)) ELSE Undefined

-----------------------------------------------------------------------------
(* JSON.parse and JSON.stringify *)

\* The result of a parsing step: ok, the value read, the position after it.
PFail == [ok |-> FALSE, v |-> Undefined, p |-> 0]

POk(val, pos) == [ok |-> TRUE, v |-> val, p |-> pos]

RECURSIVE SkipWs(_, _)
SkipWs(s, i) ==
    IF i <= Len(s) /\ s[i] \in WhiteSpace THEN SkipWs(s, i + 1) ELSE i

\* The character an escape sequence \c of a JSON string stands for.
Unescape(c) ==
    CASE c = "n" -> LF
      [] c = "t" -> TAB
      [] c = "r" -> CR
      [] c = "b" -> BS
      [] c = "f" -> FF
      [] OTHER -> c

RECURSIVE ParseStringBody(_, _, _)
\* The characters of a JSON string from position i to its closing quote.
ParseStringBody(s, i, acc) ==
    IF i > Len(s) THEN PFail
    ELSE IF s[i] = QUOTE THEN POk(JStr(acc), i + 1)
    ELSE IF s[i] = BSLASH
    THEN IF i + 1 <= Len(s) /\ s[i + 1] \in {QUOTE, BSLASH, "/", "b", "f", "n", "r", "t"}
         THEN ParseStringBody(s, i + 2, Append(acc, Unescape(s[i + 1])))
         ELSE PFail
    ELSE IF s[i] \in {LF, TAB, CR, BS, FF} THEN PFail
    ELSE ParseStringBody(s, i + 1, Append(acc, s[i]))

\* A JSON number at position i: -? (0 | [1-9][0-9]*) (. [0-9]+)?
ParseNumber(s, i) ==
    LET neg == s[i] = "-"
        b == IF neg THEN i + 1 ELSE i
        e == IF b <= Len(s) /\ s[b] = "0" THEN b + 1 ELSE DigitsEnd(s, b)
        dot == e <= Len(s) /\ s[e] = "."
        fe == IF dot THEN DigitsEnd(s, e + 1) ELSE e
    IN  IF e = b \/ (dot /\ fe = e + 1) THEN PFail
        ELSE POk(JNum(MkNum(neg, DigitsNat(SubSeq(s, b, e - 1)),
                            IF dot THEN SubSeq(s, e + 1, fe - 1) ELSE <<>>)), fe)

ParseLiteral(s, i, word, val) ==
    IF StartsWithAt(s, i, word) THEN POk(val, i + Len(word)) ELSE PFail

RECURSIVE ParseValue(_, _)
RECURSIVE ParseMembers(_, _, _)
RECURSIVE ParseElements(_, _, _)

\* The members of an object from position i, the position of a key.
ParseMembers(s, i, acc) ==
    IF i > Len(s) \/ s[i] # QUOTE THEN PFail
    ELSE LET key == ParseStringBody(s, i + 1, <<>>)
             c == SkipWs(s, key.p)
         IN  IF ~key.ok \/ c > Len(s) \/ s[c] # ":" THEN PFail
             ELSE LET val == ParseValue(s, c + 1)
                      d == SkipWs(s, val.p)
                      all == Append(acc, <<key.v.s, val.v>>)
                  IN  IF ~val.ok \/ d > Len(s) THEN PFail
                      ELSE IF s[d] = "}" THEN POk(JObj(all), d + 1)
                      ELSE IF s[d] = "," THEN ParseMembers(s, SkipWs(s, d + 1), all)
                      ELSE PFail

\* The elements of an array from position i, the position of an element.
ParseElements(s, i, acc) ==
    LET val == ParseValue(s, i)
        d == SkipWs(s, val.p)
        all == Append(acc, val.v)
    IN  IF ~val.ok \/ d > Len(s) THEN PFail
        ELSE IF s[d] = "]" THEN POk(JArr(all), d + 1)
        ELSE IF s[d] = "," THEN ParseElements(s, d + 1, all)
        ELSE PFail

\* A JSON value at or after position i, white space before it skipped.
ParseValue(s, i) ==
    LET b == SkipWs(s, i)
        c == SkipWs(s, b + 1)
    IN  IF b > Len(s) THEN PFail
        ELSE CASE s[b] = "{" ->
                    IF c <= Len(s) /\ s[c] = "}" THEN POk(JObj(<<>>), c + 1)
                    ELSE ParseMembers(s, c, <<>>)
               [] s[b] = "[" ->
                    IF c <= Len(s) /\ s[c] = "]" THEN POk(JArr(<<>>), c + 1)
                    ELSE ParseElements(s, c, <<>>)
               [] s[b] = QUOTE -> ParseStringBody(s, b + 1, <<>>)
               [] s[b] = "-" \/ s[b] \in DigitSet -> ParseNumber(s, b)
               [] s[b] = "t" -> ParseLiteral(s, b, <<"t", "r", "u", "e">>, JBool(TRUE))
               [] s[b] = "f" -> ParseLiteral(s, b, <<"f", "a", "l", "s", "e">>, JBool(FALSE))
               [] s[b] = "n" -> ParseLiteral(s, b, <<"n", "u", "l", "l">>, JNull)
               [] OTHER -> PFail

\* What a call that may throw gives: the value it returns or the error thrown.
\* err.message: the fixed text of the message and the values interpolated in it.
Err(text, parts) == [message |-> text, detail |-> parts]

NoError == Err("", <<>>)

SyntaxError == Err("Unexpected token in JSON", <<>>)

TypeError(what) == Err("TypeError: ", <<what>>)

Return(val) == [thrown |-> FALSE, v |-> val, error |-> NoError]

Throw(e) == [thrown |-> TRUE, v |-> Undefined, error |-> e]

\* JSON.parse(text): the value, or a SyntaxError thrown.
\* The value r read from the start of text, if nothing but white space follows it.
WholeText(text, r) ==
    IF r.ok /\ SkipWs(text, r.p) = Len(text) + 1 THEN Return(r.v)
    ELSE Throw(SyntaxError)

JSONParse(text) == WholeText(text, ParseValue(text, 1))

RECURSIVE QuoteChars(_)
QuoteChars(s) ==
    IF s = <<>> THEN <<>>
    ELSE (CASE Head(s) = QUOTE -> <<BSLASH, QUOTE>>
            [] Head(s) = BSLASH -> <<BSLASH, BSLASH>>
            [] Head(s) = LF -> <<BSLASH, "n">>
            [] Head(s) = TAB -> <<BSLASH, "t">>
            [] Head(s) = CR -> <<BSLASH, "r">>
            [] Head(s) = BS -> <<BSLASH, "b">>
            [] Head(s) = FF -> <<BSLASH, "f">>
            [] OTHER -> <<Head(s)>>) \o QuoteChars(Tail(s))

\* JSON.stringify of a string
StringifyString(s) == <<QUOTE>> \o QuoteChars(s) \o <<QUOTE>>

\* JSON.stringify of a number: a number that is not finite is written null.
StringifyNumber(n) ==
    IF n.k \in {"nan", "inf"} THEN <<"n", "u", "l", "l">> ELSE NumToString(n)

KeyImage == <<"i", "m", "a", "g", "e">>

KeyTopText == <<"t", "o", "p", "T", "e", "x", "t">>

KeyBottomText == <<"b", "o", "t", "t", "o", "m", "T", "e", "x", "t">>

\* JSON.stringify of a MemeCaption {image, topText, bottomText}
StringifyCaption(c) ==
    <<"{">> \o StringifyString(KeyImage) \o <<":">> \o StringifyNumber(c.image)
    \o <<",">> \o StringifyString(KeyTopText) \o <<":">> \o StringifyString(c.topText)
    \o <<",">> \o StringifyString(KeyBottomText) \o <<":">> \o StringifyString(c.bottomText)
    \o <<"}">>

-----------------------------------------------------------------------------
(* MemeGeneratorServer.parseMemeCaption *)

MkCaption(img, top, bottom) == [image |-> img, topText |-> top, bottomText |-> bottom]

\* A MemeCaption | null, as one shape: isNull, and the caption when it is not.
NoCaption == [isNull |-> TRUE, cap |-> MkCaption(NaN, <<>>, <<>>)]

SomeCaption(c) == [isNull |-> FALSE, cap |-> c]

FenceJson == <<TICK, TICK, TICK, "j", "s", "o", "n">>

Fence == <<TICK, TICK, TICK>>

\* caption.replace(/(fence)json/g, "").replace(/(fence)/g, "").trim()
Cleaned(text) == Trim(ReplaceAll(ReplaceAll(text, FenceJson), Fence))

\* The three coercions of the try block, on what JSON.parse gave.  Reading a
\* property of null throws a TypeError; of any other parsed value it does not.
Coerce(json) ==
    IF json.thrown THEN json
    ELSE IF json.v.t = "null" THEN Throw(TypeError("Cannot read properties of null"))
    ELSE Return(MkCaption(ToNum(GetProp(json.v, KeyImage)),
                          ToStr(GetProp(json.v, KeyTopText)),
                          ToStr(GetProp(json.v, KeyBottomText))))

\* The body of the try block: it returns a caption or throws.
ParseBody(text) == Coerce(JSONParse(Cleaned(text)))

\* What the caller gets when nothing catches what the try block throws.
Propagate(r) ==
    IF r.thrown THEN [thrown |-> TRUE, error |-> r.error, res |-> NoCaption]
    ELSE [thrown |-> FALSE, error |-> NoError, res |-> SomeCaption(r.v)]

\* catch { return null; }
CatchReturnNull(r) ==
    IF r.thrown THEN [thrown |-> FALSE, error |-> NoError, res |-> NoCaption]
    ELSE [thrown |-> FALSE, error |-> NoError, res |-> SomeCaption(r.v)]

TryParseWithoutCatch(text) == Propagate(ParseBody(text))

\* parseMemeCaption(text), as a call that returns (res) or throws.
TryParse(text) == CatchReturnNull(ParseBody(text))

parseMemeCaption(text) == TryParse(text).res

-----------------------------------------------------------------------------
(* Caption parsing on its own: the texts parseMemeCaption is applied to *)

\* The longest text drawn from RawAlphabet character by character.
MaxRawLen == 3

\* How often a parsed caption is serialized and parsed again.
MaxRound == 2

RawAlphabet == {TICK, "{", "}", QUOTE, "1", " ", "a", "-"}

RECURSIVE TextsUpTo(_)
TextsUpTo(n) ==
    IF n = 0 THEN {<<>>}
    ELSE LET shorter == TextsUpTo(n - 1)
         IN  shorter \cup {Append(t, c) : t \in {u \in shorter : Len(u) = n - 1},
                                          c \in RawAlphabet}

\* The captions whose serialization is parsed back.
CaptionImages == {IntNum(0), IntNum(1), IntNum(-3), IntNum(61579)}

CaptionStrings ==
    { <<>>, <<"h", "i">>, <<"a", QUOTE, "b">>, <<BSLASH, "n">>, <<" ", "x", " ">>,
      <<"a", LF>>, <<"{", "}">>, Fence, <<"a">> \o FenceJson \o <<"b">> }

ValidCaptions ==
    {MkCaption(img, top, bottom) :
        img \in CaptionImages, top \in CaptionStrings, bottom \in CaptionStrings}

\* A MemeCaption as the interface means it: an integer image, two strings.
IsValidCaption(c) == IsFiniteInteger(c.image)

\* The reply of a model that fences its JSON.
Fenced(text) == FenceJson \o <<LF>> \o text \o <<LF>> \o Fence

FencedPlain(text) == <<" ">> \o Fence \o text \o Fence \o <<LF>>

\* JSON texts that are not an object with the three fields of a caption.
ImagePieces ==
    { <<>>, <<"1", "2">>, <<QUOTE, "1", "2", QUOTE>>, <<"1", ".", "5">>,
      <<"2", ".", "0">>, <<"n", "u", "l", "l">>, <<"t", "r", "u", "e">>,
      <<"{", "}">>, <<"[", "7", "]">>, <<QUOTE, "x", QUOTE>>, <<"-", "0", ".", "2", "5">> }

TopPieces == { <<>>, <<QUOTE, "a", QUOTE>>, <<"7">>, <<"n", "u", "l", "l">>, <<"[", "1", ",", "2", "]">> }

BottomPieces == { <<>>, <<QUOTE, "b", QUOTE>> }

Member(key, piece) ==
    IF piece = <<>> THEN <<>> ELSE <<StringifyString(key) \o <<":", " ">> \o piece>>

ObjectText(img, top, bottom) ==
    <<"{">> \o Join(Member(KeyImage, img) \o Member(KeyTopText, top)
                    \o Member(KeyBottomText, bottom), <<",">>) \o <<"}">>

ObjectTexts ==
    {ObjectText(img, top, bottom) :
        img \in ImagePieces, top \in TopPieces, bottom \in BottomPieces}

BareTexts ==
    { <<"5">>, <<"n", "u", "l", "l">>, <<"t", "r", "u", "e">>, <<QUOTE, "s", QUOTE>>,
      <<"[", "]">>, <<"[", "n", "u", "l", "l", "]">>, <<"S", "o", "r", "r", "y">>,
      <<"{", QUOTE, "a", QUOTE, ":", "1", ",", "}">>,
      ObjectText(<<"1">>, <<>>, <<>>) \o ObjectText(<<"2">>, <<>>, <<>>),
      <<"{">> \o StringifyString(KeyImage) \o <<":", "1", ",">>
         \o StringifyString(KeyImage) \o <<":", "2", "}">> }

\* The unbalanced texts: every proper prefix of a caption's serialization.
PrefixSource == StringifyCaption(MkCaption(IntNum(1), <<"a", " ", "}">>, Fence))

PrefixTexts == {SubSeq(PrefixSource, 1, n) : n \in 1..(Len(PrefixSource) - 1)}

Input(kind, text, c) == [kind |-> kind, text |-> text, cap |-> c]

ParseInputs ==
    {Input("caption", StringifyCaption(c), c) : c \in ValidCaptions}
    \cup {Input("caption", Fenced(StringifyCaption(c)), c) : c \in ValidCaptions}
    \cup {Input("caption", FencedPlain(StringifyCaption(c)), c) : c \in ValidCaptions}
    \cup {Input("json", t, NoCaption.cap) : t \in ObjectTexts \cup BareTexts}
    \cup {Input("prefix", t, NoCaption.cap) : t \in PrefixTexts}
    \cup {Input("text", t, NoCaption.cap) : t \in TextsUpTo(MaxRawLen)}

-----------------------------------------------------------------------------
(* The state of the service between requests *)

Required == <<"NEWSDATA_API_KEY", "GEMINI_API_KEY", "IMGFLIP_USERNAME", "IMGFLIP_PASSWORD">>

RequiredKeys == {Required[k] : k \in 1..Len(Required)}

\* A request: its route, the fields of its query or body, and whether it has a
\* body at all (a POST without a JSON body may leave req.body undefined).
NoRequest == [route |-> "", topic |-> Undefined, paramsTopic |-> Undefined,
              articleIndex |-> Undefined, title |-> Undefined,
              description |-> Undefined, availableTemplates |-> Undefined,
              templateId |-> Undefined, topText |-> Undefined,
              bottomText |-> Undefined, hasBody |-> TRUE]

PipeIdle ==
    /\ pc = "idle"
    /\ req = NoRequest
    /\ calls = <<>>
    /\ replies = <<>>
    /\ news = <<>>
    /\ article = <<>>
    /\ templateIds = <<>>
    /\ caption = <<>>
    /\ memeUrl = <<>>
    /\ responses = <<>>

ParseIdle ==
    /\ raw = <<>>
    /\ orig = Input("none", <<>>, NoCaption.cap)
    /\ parsed = <<>>
    /\ round = 0

-----------------------------------------------------------------------------
(* The specification of caption parsing *)

ParseInit ==
    /\ env = [k \in RequiredKeys |-> JStr(<<"secret">>)]
    /\ PipeIdle
    /\ \E inp \in ParseInputs :
          /\ raw = inp.text
          /\ orig = inp
    /\ parsed = <<>>
    /\ round = 0

\* parseMemeCaption(raw)
Parse ==
    /\ parsed = <<>>
    /\ parsed' = <<TryParse(raw)>>
    /\ UNCHANGED <<raw, orig, round>>
    /\ UNCHANGED pipeVars

\* The caption parsed is serialized, and the serialization is parsed next.
Reserialize ==
    /\ parsed # <<>>
    /\ ~parsed[1].thrown
    /\ ~parsed[1].res.isNull
    /\ round < MaxRound
    /\ raw' = StringifyCaption(parsed[1].res.cap)
    /\ orig' = Input("caption", raw', parsed[1].res.cap)
    /\ parsed' = <<>>
    /\ round' = round + 1
    /\ UNCHANGED pipeVars

ParseNext == Parse \/ Reserialize

SpecParse == ParseInit /\ [][ParseNext]_vars

-----------------------------------------------------------------------------
(* Upstream responses and the calls made *)

\* A text whose characters the code never examines is written as one symbol.
K(name) == <<name>>

\* What await fetch(...) gives: a rejection (no connection), or a response with
\* its ok flag and status, whose body res.json() reads or cannot parse.
HttpJson(val) == [rejected |-> FALSE, ok |-> TRUE, status |-> "200", jsonOk |-> TRUE, body |-> val]

HttpError(code) == [rejected |-> FALSE, ok |-> FALSE, status |-> code, jsonOk |-> TRUE, body |-> JObj(<<>>)]

HttpErrorJson(code, val) == [rejected |-> FALSE, ok |-> FALSE, status |-> code, jsonOk |-> TRUE, body |-> val]

NotJson == [rejected |-> FALSE, ok |-> TRUE, status |-> "200", jsonOk |-> FALSE, body |-> Undefined]

NetworkFailure == [rejected |-> TRUE, ok |-> FALSE, status |-> "", jsonOk |-> FALSE, body |-> Undefined]

\* An upstream call: the API called and the arguments of the method that calls it.
NoCall == [api |-> "", q |-> Undefined, title |-> Undefined, description |-> Undefined,
           availableTemplates |-> Undefined, templateId |-> Undefined,
           template_id |-> <<>>, text0 |-> Undefined, text1 |-> Undefined]

\* await res.json()
ReadJson(resp) == IF resp.jsonOk THEN Return(resp.body) ELSE Throw(SyntaxError)

\* Reading a property of v throws a TypeError when v is null or undefined.
CanRead(v) == v.t \notin {"undefined", "null"}

\* v?.key
OptProp(v, key) == IF CanRead(v) THEN GetProp(v, key) ELSE Undefined

\* list[index]: the element whose index the property key String(index) names.
ElementAt(list, index) ==
    LET key == ToStr(index)
        hit == {k \in 0..(Len(list) - 1) : NatDigits(k) = key}
    IN  IF hit = {} THEN Undefined ELSE list[(CHOOSE k \in hit : TRUE) + 1]

Min(a, b) == IF a <= b THEN a ELSE b

\* list.slice(0, n)
Slice(list, n) == SubSeq(list, 1, Min(Len(list), n))

-----------------------------------------------------------------------------
(* MemeGeneratorServer: the service methods, each as the part before its     *)
(* await fetch(...) (the call it issues, or the error thrown before it) and  *)
(* the part after (what it returns or throws, given the response).           *)

validateEnvVarsUnsetOnly(e) ==
    LET missing == SelectSeq(Required, LAMBDA key : e[key].t = "undefined")
    IN  IF Len(missing) > 0
        THEN Throw(Err("Missing required environment variables: ", missing))
        ELSE Return(Undefined)

validateEnvVars(e) ==
    LET missing == SelectSeq(Required, LAMBDA key : ~Truthy(e[key]))
    IN  IF Len(missing) > 0
        THEN Throw(Err("Missing required environment variables: ", missing))
        ELSE Return(Undefined)

\* fetchIndianNews(topic), to its fetch: topic.trim() needs a string.
fetchIndianNewsCall(topic) ==
    IF topic.t # "str" THEN Throw(TypeError("topic.trim is not a function"))
    ELSE Return([NoCall EXCEPT !.api = "news",
                               !.q = IF Trim(topic.s) # <<>> THEN topic ELSE Undefined])

fetchIndianNewsReturn(resp) ==
    IF resp.rejected THEN Throw(TypeError("fetch failed"))
    ELSE IF ~resp.ok THEN Throw(Err("NewsData API error: ", <<resp.status>>))
    ELSE LET data == ReadJson(resp)
         IN  IF data.thrown THEN data
             ELSE IF ~CanRead(data.v) THEN Throw(TypeError("Cannot read properties of null"))
             ELSE IF GetProp(data.v, K("results")).t # "arr" THEN Return(<<>>)
             ELSE Return(GetProp(data.v, K("results")).kv)

TemplateLimit == 100

fetchImgflipTemplatesCall == [NoCall EXCEPT !.api = "templates"]

fetchImgflipTemplatesReturn(resp) ==
    IF resp.rejected THEN Throw(TypeError("fetch failed"))
    ELSE IF ~resp.ok THEN Throw(Err("Imgflip templates API error: ", <<resp.status>>))
    ELSE LET json == ReadJson(resp)
         IN  IF json.thrown THEN json
             ELSE IF ~CanRead(json.v) THEN Throw(TypeError("Cannot read properties of null"))
             ELSE IF ~Truthy(GetProp(json.v, K("success")))
             THEN Throw(Err("Imgflip API returned success: false", <<>>))
             ELSE LET data == GetProp(json.v, K("data"))
                      memes == OptProp(data, K("memes"))
                      first == Slice(memes.kv, TemplateLimit)
                  IN  IF ~CanRead(data) \/ memes.t # "arr"
                         \/ \E k \in 1..Len(first) : ~CanRead(first[k])
                      THEN Throw(TypeError("Cannot read properties of undefined"))
                      ELSE Return([k \in 1..Len(first) |->
                                      [id |-> ToNum(GetProp(first[k], K("id"))),
                                       name |-> GetProp(first[k], K("name"))]])

\* generateCaption(title, description, availableTemplates), to its fetch: the
\* prompt holds the title, the description and availableTemplates.join(", ").
generateCaptionCall(title, description, availableTemplates) ==
    IF availableTemplates.t # "arr"
    THEN Throw(TypeError("availableTemplates.join is not a function"))
    ELSE Return([NoCall EXCEPT !.api = "caption", !.title = title,
                               !.description = description,
                               !.availableTemplates = availableTemplates])

\* data?.candidates?.[0]?.content?.parts?.[0]?.text || ""
CandidateText(data) ==
    LET candidates == OptProp(data, K("candidates"))
        candidate == IF candidates.t = "arr" THEN ElementAt(candidates.kv, JNum(IntNum(0)))
                     ELSE Undefined
        parts == OptProp(OptProp(candidate, K("content")), K("parts"))
        part == IF parts.t = "arr" THEN ElementAt(parts.kv, JNum(IntNum(0))) ELSE Undefined
    IN  Or(OptProp(part, K("text")), JStr(<<>>))

\* return this.parseMemeCaption(output)
Parsed(parse) == IF parse.thrown THEN Throw(parse.error) ELSE Return(parse.res)

generateCaptionReturn(resp) ==
    IF resp.rejected THEN Throw(TypeError("fetch failed"))
    ELSE IF ~resp.ok THEN Throw(Err("Gemini API error: ", <<resp.status>>))
    ELSE LET data == ReadJson(resp)
             output == CandidateText(data.v)
         IN  IF data.thrown THEN data
             ELSE IF ~Truthy(output) THEN Return(NoCaption)
             ELSE Parsed(TryParse(output.s))

\* generateMeme(templateId, topText, bottomText), to its fetch: the form holds
\* templateId.toString() and the two texts.
generateMemeCall(templateId, topText, bottomText) ==
    [NoCall EXCEPT !.api = "render", !.templateId = templateId,
                   !.template_id = ToStr(templateId),
                   !.text0 = topText, !.text1 = bottomText]

generateMemeReturn(resp) ==
    IF resp.rejected THEN Throw(TypeError("fetch failed"))
    ELSE LET data == ReadJson(resp)
         IN  IF data.thrown THEN data
             ELSE IF ~CanRead(data.v) THEN Throw(TypeError("Cannot read properties of null"))
             ELSE IF ~Truthy(GetProp(data.v, K("success")))
             THEN Throw(Err("Imgflip API error: ", ToStr(GetProp(data.v, K("error_message")))))
             ELSE Return(Or(OptProp(GetProp(data.v, K("data")), K("url")), JNull))

-----------------------------------------------------------------------------
(* What the environment supplies: configuration, requests, upstream replies *)

\* The longest article list and the longest template list an upstream returns.
MaxArticles == 2

MaxTemplates == 2

RECURSIVE SeqsUpTo(_, _)
SeqsUpTo(S, n) ==
    IF n = 0 THEN {<<>>}
    ELSE LET shorter == SeqsUpTo(S, n - 1)
         IN  shorter \cup {Append(t, x) : t \in {u \in shorter : Len(u) = n - 1}, x \in S}

\* process.env[key]: unset, set to the empty string, or set.
EnvValues == {Undefined, JStr(<<>>), JStr(<<"secret">>)}

QueryTopics == {Undefined, JStr(<<>>), JStr(<<" ">>), JStr(K("cricket"))}

BodyTopics == {Undefined, JStr(K("cricket")), JNum(IntNum(7))}

ParamsTopics == {Undefined, JStr(K("budget"))}

ArticleIndexes ==
    {Undefined, JNum(IntNum(1)), JStr(<<"1">>), JNum(IntNum(-1)), JNum(IntNum(MaxArticles))}

\* Articles the news service may return: complete, without a link, with an
\* empty title, without a description.
ArticlePool ==
    {JObj(<< <<K("title"), JStr(K("India wins"))>>,
             <<K("description"), JStr(K("Historic victory"))>>,
             <<K("link"), JStr(K("https://news.example/1"))>> >>),
     JObj(<< <<K("title"), JStr(K("Rain"))>>, <<K("description"), JStr(K("Monsoon arrives"))>> >>),
     JObj(<< <<K("title"), JStr(<<>>)>>, <<K("description"), JStr(K("No headline"))>> >>),
     JObj(<< <<K("title"), JStr(K("Only a title"))>> >>)}

NewsResponses ==
    {NetworkFailure, HttpError("429"), NotJson, HttpJson(JNull), HttpJson(JObj(<<>>))}
    \cup {HttpJson(JObj(<< <<K("results"), JArr(l)>> >>)) : l \in SeqsUpTo(ArticlePool, MaxArticles)}

TemplateObject(id, name) == JObj(<< <<K("id"), JStr(id)>>, <<K("name"), JStr(K(name))>> >>)

TemplatePool == {TemplateObject(<<"1">>, "Drake"), TemplateObject(<<"2", "2">>, "Distracted")}

TemplatesBody(l) ==
    JObj(<< <<K("success"), JBool(TRUE)>>, <<K("data"), JObj(<< <<K("memes"), JArr(l)>> >>)>> >>)

TemplateResponses ==
    {NetworkFailure, HttpError("500"), NotJson,
     HttpJson(JObj(<< <<K("success"), JBool(FALSE)>> >>)),
     HttpJson(JObj(<< <<K("success"), JBool(TRUE)>> >>))}
    \cup {HttpJson(TemplatesBody(l)) : l \in SeqsUpTo(TemplatePool, MaxTemplates)}

GeminiBody(text) ==
    JObj(<< <<K("candidates"),
              JArr(<< JObj(<< <<K("content"),
                                JObj(<< <<K("parts"),
                                          JArr(<< JObj(<< <<K("text"), JStr(text)>> >>) >>)>> >>)>> >>) >>)>> >>)

\* Replies of the generative model: a caption for template 1, a fenced caption
\* for a template that is not in the catalog, a bare number, a truncated
\* object, a refusal, nothing.
ReplyTexts ==
    { StringifyCaption(MkCaption(IntNum(1), K("When India wins"), K("Everyone celebrates"))),
      Fenced(StringifyCaption(MkCaption(IntNum(999), <<"a">>, <<"b">>))),
      <<"5">>,
      SubSeq(PrefixSource, 1, Len(PrefixSource) - 1),
      <<"S", "o", "r", "r", "y">>,
      <<>> }

CaptionResponses ==
    {NetworkFailure, HttpError("503"), NotJson, HttpJson(JObj(<<>>))}
    \cup {HttpJson(GeminiBody(t)) : t \in ReplyTexts}

RenderFailureBody ==
    JObj(<< <<K("success"), JBool(FALSE)>>, <<K("error_message"), JStr(K("No meme found"))>> >>)

RenderBody(data) == JObj(<< <<K("success"), JBool(TRUE)>>, <<K("data"), data>> >>)

RenderResponses ==
    {NetworkFailure, NotJson, HttpJson(RenderFailureBody),
     HttpErrorJson("403", RenderFailureBody),
     HttpJson(RenderBody(JObj(<< <<K("url"), JStr(K("https://i.imgflip.com/abc.jpg"))>> >>))),
     HttpJson(RenderBody(JObj(<< <<K("url"), JStr(<<>>)>> >>))),
     HttpJson(RenderBody(JObj(<<>>))),
     HttpJson(JObj(<< <<K("success"), JBool(TRUE)>> >>))}

-----------------------------------------------------------------------------
(* Responses *)

NoPayload == [count |-> 0, articles |-> <<>>, templates |-> <<>>, article |-> Undefined,
              caption |-> NoCaption, memeUrl |-> Undefined]

\* res.json(payload): status 200, {success: true, ...payload}
Success(payload) == [status |-> 200, success |-> TRUE, error |-> NoError, payload |-> payload]

FailureAsClientError(e) ==
    [status |-> IF e.message = "Missing required parameters" THEN 400 ELSE 500,
     success |-> FALSE, error |-> e, payload |-> NoPayload]

\* The catch block: res.status(500).json({success: false, error: err.message})
Failure(e) == [status |-> 500, success |-> FALSE, error |-> e, payload |-> NoPayload]

\* The handler ends with one response sent.
Responded(cs, rs, r) ==
    /\ calls' = cs
    /\ responses' = Append(rs, r)
    /\ pc' = "done"

Catch(cs, rs, e) == Responded(cs, rs, Failure(e))

\* The handler awaits the upstream call it has just issued.
Issue(cs, rs, call, api) ==
    /\ calls' = Append(cs, call)
    /\ responses' = rs
    /\ pc' = api

ClearLocals ==
    /\ replies' = <<>>
    /\ news' = <<>>
    /\ article' = <<>>
    /\ templateIds' = <<>>
    /\ caption' = <<>>
    /\ memeUrl' = <<>>

\* No request is in progress.
Idle == pc = "idle"

\* A value of process.env changes between two requests.
SetEnv ==
    /\ Idle
    /\ \E key \in RequiredKeys, val \in EnvValues :
          /\ env[key] # val
          /\ env' = [env EXCEPT ![key] = val]
    /\ UNCHANGED <<pc, req, calls, replies, news, article, templateIds, caption, memeUrl, responses>>
    /\ UNCHANGED parseVars

\* The handler has returned: the request and its locals are gone.
Finish ==
    /\ pc = "done"
    /\ pc' = "idle"
    /\ req' = NoRequest
    /\ calls' = <<>>
    /\ responses' = <<>>
    /\ ClearLocals
    /\ UNCHANGED env
    /\ UNCHANGED parseVars

-----------------------------------------------------------------------------
(* The four single-step routes *)

\* GET /fetch_indian_news, to its await
FetchIndianNewsRoute ==
    /\ Idle
    /\ \E q \in QueryTopics :
          LET config == validateEnvVars(env)
              topic == IF CanRead(q) THEN Or(JStr(ToStr(q)), JStr(<<>>)) ELSE JStr(<<>>)
              call == fetchIndianNewsCall(topic)
          IN  /\ req' = [NoRequest EXCEPT !.route = "fetch_indian_news", !.topic = q]
              /\ IF config.thrown THEN Catch(<<>>, <<>>, config.error)
                 ELSE IF call.thrown THEN Catch(<<>>, <<>>, call.error)
                 ELSE Issue(<<>>, <<>>, call.v, "news")
    /\ ClearLocals
    /\ UNCHANGED env
    /\ UNCHANGED parseVars

\* GET /fetch_indian_news, from its await
FetchIndianNewsDone ==
    /\ pc = "news"
    /\ req.route = "fetch_indian_news"
    /\ \E resp \in NewsResponses :
          /\ replies' = Append(replies, resp)
          /\ LET r == fetchIndianNewsReturn(resp)
             IN  IF r.thrown
                 THEN /\ Catch(calls, responses, r.error)
                      /\ news' = news
                 ELSE /\ news' = <<r.v>>
                      /\ Responded(calls, responses,
                                   Success([NoPayload EXCEPT !.count = Len(r.v), !.articles = r.v]))
    /\ UNCHANGED <<env, req, article, templateIds, caption, memeUrl>>
    /\ UNCHANGED parseVars

\* GET /get_meme_templates, to its await
GetMemeTemplatesRoute ==
    /\ Idle
    /\ req' = [NoRequest EXCEPT !.route = "get_meme_templates"]
    /\ Issue(<<>>, <<>>, fetchImgflipTemplatesCall, "templates")
    /\ ClearLocals
    /\ UNCHANGED env
    /\ UNCHANGED parseVars

\* GET /get_meme_templates, from its await
GetMemeTemplatesDone ==
    /\ pc = "templates"
    /\ req.route = "get_meme_templates"
    /\ \E resp \in TemplateResponses :
          /\ replies' = Append(replies, resp)
          /\ LET r == fetchImgflipTemplatesReturn(resp)
             IN  IF r.thrown THEN Catch(calls, responses, r.error)
                 ELSE Responded(calls, responses,
                                Success([NoPayload EXCEPT !.count = Len(r.v), !.templates = r.v]))
    /\ UNCHANGED <<env, req, news, article, templateIds, caption, memeUrl>>
    /\ UNCHANGED parseVars

CaptionRequests ==
    {[NoRequest EXCEPT !.route = "generate_meme_caption", !.hasBody = b, !.title = t,
                       !.description = d, !.availableTemplates = a] :
        b \in BOOLEAN,
        t \in {Undefined, JStr(K("India wins"))},
        d \in {Undefined, JStr(K("Historic victory"))},
        a \in {Undefined, JNum(IntNum(1)), JArr(<<JNum(IntNum(1)), JNum(IntNum(22))>>)}}

\* POST /generate_meme_caption, to its await
GenerateMemeCaptionRoute ==
    /\ Idle
    /\ \E r \in CaptionRequests :
          LET config == validateEnvVars(env)
              call == generateCaptionCall(r.title, r.description, r.availableTemplates)
          IN  /\ req' = r
              /\ IF config.thrown THEN Catch(<<>>, <<>>, config.error)
                 ELSE IF ~r.hasBody
                 THEN Catch(<<>>, <<>>, TypeError("Cannot destructure property of req.body"))
                 ELSE IF ~Truthy(r.title) \/ ~Truthy(r.description)
                         \/ ~Truthy(r.availableTemplates)
                 THEN Catch(<<>>, <<>>, Err("Missing required parameters", <<>>))
                 ELSE IF call.thrown THEN Catch(<<>>, <<>>, call.error)
                 ELSE Issue(<<>>, <<>>, call.v, "caption")
    /\ ClearLocals
    /\ UNCHANGED env
    /\ UNCHANGED parseVars

\* POST /generate_meme_caption, from its await
GenerateMemeCaptionDone ==
    /\ pc = "caption"
    /\ req.route = "generate_meme_caption"
    /\ \E resp \in CaptionResponses :
          /\ replies' = Append(replies, resp)
          /\ LET r == generateCaptionReturn(resp)
             IN  IF r.thrown
                 THEN /\ Catch(calls, responses, r.error)
                      /\ caption' = caption
                 ELSE /\ caption' = <<r.v>>
                      /\ Responded(calls, responses, Success([NoPayload EXCEPT !.caption = r.v]))
    /\ UNCHANGED <<env, req, news, article, templateIds, memeUrl>>
    /\ UNCHANGED parseVars

CreateMemeRequests ==
    {[NoRequest EXCEPT !.route = "create_meme", !.hasBody = b, !.templateId = i,
                       !.topText = t, !.bottomText = u] :
        b \in BOOLEAN,
        i \in {Undefined, JNum(IntNum(0)), JNum(IntNum(1)), JStr(<<"2", "2">>)},
        t \in {Undefined, JStr(K("When India wins"))},
        u \in {Undefined, JStr(<<>>), JStr(K("Everyone celebrates"))}}

\* POST /create_meme, to its await
CreateMemeRoute ==
    /\ Idle
    /\ \E r \in CreateMemeRequests :
          LET config == validateEnvVars(env)
          IN  /\ req' = r
              /\ IF config.thrown THEN Catch(<<>>, <<>>, config.error)
                 ELSE IF ~r.hasBody
                 THEN Catch(<<>>, <<>>, TypeError("Cannot destructure property of req.body"))
                 ELSE IF ~Truthy(r.templateId) \/ ~Truthy(r.topText) \/ ~Truthy(r.bottomText)
                 THEN Catch(<<>>, <<>>, Err("Missing required parameters", <<>>))
                 ELSE Issue(<<>>, <<>>,
                            generateMemeCall(r.templateId, r.topText, r.bottomText), "render")
    /\ ClearLocals
    /\ UNCHANGED env
    /\ UNCHANGED parseVars

\* POST /create_meme, from its await
CreateMemeDone ==
    /\ pc = "render"
    /\ req.route = "create_meme"
    /\ \E resp \in RenderResponses :
          /\ replies' = Append(replies, resp)
          /\ LET r == generateMemeReturn(resp)
             IN  IF r.thrown
                 THEN /\ Catch(calls, responses, r.error)
                      /\ memeUrl' = memeUrl
                 ELSE /\ memeUrl' = <<r.v>>
                      /\ Responded(calls, responses, Success([NoPayload EXCEPT !.memeUrl = r.v]))
    /\ UNCHANGED <<env, req, news, article, templateIds, caption>>
    /\ UNCHANGED parseVars

-----------------------------------------------------------------------------
(* POST /generate_news_meme *)

NewsMemeRequests ==
    {[NoRequest EXCEPT !.route = "generate_news_meme", !.topic = t, !.articleIndex = i] :
        t \in BodyTopics, i \in ArticleIndexes}
    \cup {[NoRequest EXCEPT !.route = "generate_news_meme", !.hasBody = FALSE]}

\* req.body.articleIndex || 0
ArticleIndexOf(r) == Or(r.articleIndex, JNum(IntNum(0)))

StartCallsInParallel(newsCall) == <<newsCall, fetchImgflipTemplatesCall>>

\* The calls a full pipeline has issued when it first awaits: the news fetch.
StartCalls(newsCall) == <<newsCall>>

ArticleInvalidTitleOnly(art) == ~Truthy(OptProp(art, K("title")))

\* !article?.title || !article?.description
ArticleInvalid(art) ==
    ~Truthy(OptProp(art, K("title"))) \/ ~Truthy(OptProp(art, K("description")))

\* templates.map((t) => t.id)
TemplateIdsOf(templates) == [k \in 1..Len(templates) |-> JNum(templates[k].id)]

CaptionCallWithoutIds(art, ids) ==
    generateCaptionCall(GetProp(art, K("title")), GetProp(art, K("description")), JArr(<<>>))

\* generateCaption(article.title, article.description, templateIds)
CaptionCallFor(art, ids) ==
    generateCaptionCall(GetProp(art, K("title")), GetProp(art, K("description")), JArr(ids))

CaptionNeverMissing(c) == FALSE

\* !caption
CaptionMissing(c) == c.isNull

RenderCallOfAllowed(c, ids) ==
    generateMemeCall(IF JNum(c.cap.image) \in {ids[k] : k \in 1..Len(ids)} \/ ids = <<>>
                     THEN JNum(c.cap.image) ELSE ids[1],
                     JStr(c.cap.topText), JStr(c.cap.bottomText))

\* generateMeme(caption.image, caption.topText, caption.bottomText); ids are the
\* template IDs in scope, which the call does not read.
RenderCallFor(c, ids) ==
    generateMemeCall(JNum(c.cap.image), JStr(c.cap.topText), JStr(c.cap.bottomText))

\* to the first await
GenerateNewsMemeRoute ==
    /\ Idle
    /\ \E r \in NewsMemeRequests :
          LET config == validateEnvVars(env)
              call == fetchIndianNewsCall(Or(r.topic, JStr(<<>>)))
          IN  /\ req' = r
              /\ IF config.thrown THEN Catch(<<>>, <<>>, config.error)
                 ELSE IF ~r.hasBody
                 THEN Catch(<<>>, <<>>, TypeError("Cannot read properties of undefined"))
                 ELSE IF call.thrown THEN Catch(<<>>, <<>>, call.error)
                 ELSE /\ calls' = StartCalls(call.v)
                      /\ responses' = <<>>
                      /\ pc' = "news"
    /\ ClearLocals
    /\ UNCHANGED env
    /\ UNCHANGED parseVars

\* from the news fetch to the template fetch
GenerateNewsMemeNews ==
    /\ pc = "news"
    /\ req.route = "generate_news_meme"
    /\ \E resp \in NewsResponses :
          /\ replies' = Append(replies, resp)
          /\ LET r == fetchIndianNewsReturn(resp)
                 art == ElementAt(r.v, ArticleIndexOf(req))
             IN  IF r.thrown
                 THEN /\ Catch(calls, responses, r.error)
                      /\ UNCHANGED <<news, article>>
                 ELSE /\ news' = <<r.v>>
                      /\ IF Len(r.v) = 0
                         THEN /\ Catch(calls, responses, Err("No news articles found", <<>>))
                              /\ article' = article
                         ELSE /\ article' = <<art>>
                              /\ IF ArticleInvalid(art)
                                 THEN Catch(calls, responses, Err("Invalid article", <<>>))
                                 ELSE Issue(calls, responses, fetchImgflipTemplatesCall, "templates")
    /\ UNCHANGED <<env, req, templateIds, caption, memeUrl>>
    /\ UNCHANGED parseVars

\* from the template fetch to the caption request
GenerateNewsMemeTemplates ==
    /\ pc = "templates"
    /\ req.route = "generate_news_meme"
    /\ \E resp \in TemplateResponses :
          /\ replies' = Append(replies, resp)
          /\ LET r == fetchImgflipTemplatesReturn(resp)
                 ids == TemplateIdsOf(r.v)
                 call == CaptionCallFor(article[1], ids)
             IN  IF r.thrown
                 THEN /\ Catch(calls, responses, r.error)
                      /\ templateIds' = templateIds
                 ELSE /\ templateIds' = <<ids>>
                      /\ IF call.thrown THEN Catch(calls, responses, call.error)
                         ELSE Issue(calls, responses, call.v, "caption")
    /\ UNCHANGED <<env, req, news, article, caption, memeUrl>>
    /\ UNCHANGED parseVars

\* from the caption request to the render
GenerateNewsMemeCaption ==
    /\ pc = "caption"
    /\ req.route = "generate_news_meme"
    /\ \E resp \in CaptionResponses :
          /\ replies' = Append(replies, resp)
          /\ LET r == generateCaptionReturn(resp)
             IN  IF r.thrown
                 THEN /\ Catch(calls, responses, r.error)
                      /\ caption' = caption
                 ELSE /\ caption' = <<r.v>>
                      /\ IF CaptionMissing(r.v)
                         THEN Catch(calls, responses, Err("Failed to generate meme caption", <<>>))
                         ELSE Issue(calls, responses, RenderCallFor(r.v, templateIds[1]), "render")
    /\ UNCHANGED <<env, req, news, article, templateIds, memeUrl>>
    /\ UNCHANGED parseVars

\* from the render to the response
GenerateNewsMemeRender ==
    /\ pc = "render"
    /\ req.route = "generate_news_meme"
    /\ \E resp \in RenderResponses :
          /\ replies' = Append(replies, resp)
          /\ LET r == generateMemeReturn(resp)
                 summary == JObj(<< <<K("title"), GetProp(article[1], K("title"))>>,
                                    <<K("description"), GetProp(article[1], K("description"))>> >>)
             IN  IF r.thrown
                 THEN /\ Catch(calls, responses, r.error)
                      /\ memeUrl' = memeUrl
                 ELSE /\ memeUrl' = <<r.v>>
                      /\ Responded(calls, responses,
                                   Success([NoPayload EXCEPT !.article = summary,
                                                             !.caption = caption[1],
                                                             !.memeUrl = r.v]))
    /\ UNCHANGED <<env, req, news, article, templateIds, caption>>
    /\ UNCHANGED parseVars

-----------------------------------------------------------------------------
(* POST /puch_generate_meme *)

PuchRequests ==
    {[NoRequest EXCEPT !.route = "puch_generate_meme", !.topic = t, !.paramsTopic = p,
                       !.articleIndex = i] :
        t \in BodyTopics, p \in ParamsTopics, i \in ArticleIndexes}
    \cup {[NoRequest EXCEPT !.route = "puch_generate_meme", !.hasBody = FALSE]}

\* req.body.topic || req.body.params?.topic || ""
PuchTopicOf(r) == Or(Or(r.topic, r.paramsTopic), JStr(<<>>))

UrlNeverMissing(url) == FALSE

\* !memeUrl
UrlMissing(url) == ~Truthy(url)

\* to the first await
PuchGenerateMemeRoute ==
    /\ Idle
    /\ \E r \in PuchRequests :
          LET config == validateEnvVars(env)
              topic == PuchTopicOf(r)
              call == fetchIndianNewsCall(topic)
          IN  /\ req' = r
              /\ IF config.thrown THEN Catch(<<>>, <<>>, config.error)
                 ELSE IF ~r.hasBody
                 THEN Catch(<<>>, <<>>, TypeError("Cannot read properties of undefined"))
                 ELSE IF ~Truthy(topic) THEN Catch(<<>>, <<>>, Err("Topic is required", <<>>))
                 ELSE IF call.thrown THEN Catch(<<>>, <<>>, call.error)
                 ELSE /\ calls' = StartCalls(call.v)
                      /\ responses' = <<>>
                      /\ pc' = "news"
    /\ ClearLocals
    /\ UNCHANGED env
    /\ UNCHANGED parseVars

\* from the news fetch to the template fetch
PuchGenerateMemeNews ==
    /\ pc = "news"
    /\ req.route = "puch_generate_meme"
    /\ \E resp \in NewsResponses :
          /\ replies' = Append(replies, resp)
          /\ LET r == fetchIndianNewsReturn(resp)
                 art == ElementAt(r.v, ArticleIndexOf(req))
             IN  IF r.thrown
                 THEN /\ Catch(calls, responses, r.error)
                      /\ UNCHANGED <<news, article>>
                 ELSE /\ news' = <<r.v>>
                      /\ IF Len(r.v) = 0
                         THEN /\ Catch(calls, responses, Err("No news articles found for topic: ",
                                                              ToStr(PuchTopicOf(req))))
                              /\ article' = article
                         ELSE /\ article' = <<art>>
                              /\ IF ArticleInvalid(art)
                                 THEN Catch(calls, responses, Err("Selected article is missing title/description", <<>>))
                                 ELSE Issue(calls, responses, fetchImgflipTemplatesCall, "templates")
    /\ UNCHANGED <<env, req, templateIds, caption, memeUrl>>
    /\ UNCHANGED parseVars

\* from the template fetch to the caption request
PuchGenerateMemeTemplates ==
    /\ pc = "templates"
    /\ req.route = "puch_generate_meme"
    /\ \E resp \in TemplateResponses :
          /\ replies' = Append(replies, resp)
          /\ LET r == fetchImgflipTemplatesReturn(resp)
                 ids == TemplateIdsOf(r.v)
                 call == CaptionCallFor(article[1], ids)
             IN  IF r.thrown
                 THEN /\ Catch(calls, responses, r.error)
                      /\ templateIds' = templateIds
                 ELSE /\ templateIds' = <<ids>>
                      /\ IF call.thrown THEN Catch(calls, responses, call.error)
                         ELSE Issue(calls, responses, call.v, "caption")
    /\ UNCHANGED <<env, req, news, article, caption, memeUrl>>
    /\ UNCHANGED parseVars

\* from the caption request to the render
PuchGenerateMemeCaption ==
    /\ pc = "caption"
    /\ req.route = "puch_generate_meme"
    /\ \E resp \in CaptionResponses :
          /\ replies' = Append(replies, resp)
          /\ LET r == generateCaptionReturn(resp)
             IN  IF r.thrown
                 THEN /\ Catch(calls, responses, r.error)
                      /\ caption' = caption
                 ELSE /\ caption' = <<r.v>>
                      /\ IF CaptionMissing(r.v)
                         THEN Catch(calls, responses, Err("Failed to generate meme caption", <<>>))
                         ELSE Issue(calls, responses, RenderCallFor(r.v, templateIds[1]), "render")
    /\ UNCHANGED <<env, req, news, article, templateIds, memeUrl>>
    /\ UNCHANGED parseVars

\* from the render to the response
PuchGenerateMemeRender ==
    /\ pc = "render"
    /\ req.route = "puch_generate_meme"
    /\ \E resp \in RenderResponses :
          /\ replies' = Append(replies, resp)
          /\ LET r == generateMemeReturn(resp)
                 summary == JObj(<< <<K("title"), GetProp(article[1], K("title"))>>,
                                    <<K("description"), GetProp(article[1], K("description"))>>,
                                    <<K("link"), Or(GetProp(article[1], K("link")), JNull)>> >>)
             IN  IF r.thrown
                 THEN /\ Catch(calls, responses, r.error)
                      /\ memeUrl' = memeUrl
                 ELSE /\ memeUrl' = <<r.v>>
                      /\ IF UrlMissing(r.v)
                         THEN Catch(calls, responses, Err("Failed to create meme image", <<>>))
                         ELSE Responded(calls, responses,
                                        Success([NoPayload EXCEPT !.article = summary,
                                                                  !.caption = caption[1],
                                                                  !.memeUrl = r.v]))
    /\ UNCHANGED <<env, req, news, article, templateIds, caption>>
    /\ UNCHANGED parseVars

-----------------------------------------------------------------------------
(* The specification of the service *)

Init ==
    /\ env = [k \in RequiredKeys |-> JStr(<<"secret">>)]
    /\ PipeIdle
    /\ ParseIdle

Next ==
    \/ SetEnv
    \/ Finish
    \/ FetchIndianNewsRoute
    \/ FetchIndianNewsDone
    \/ GetMemeTemplatesRoute
    \/ GetMemeTemplatesDone
    \/ GenerateMemeCaptionRoute
    \/ GenerateMemeCaptionDone
    \/ CreateMemeRoute
    \/ CreateMemeDone
    \/ GenerateNewsMemeRoute
    \/ GenerateNewsMemeNews
    \/ GenerateNewsMemeTemplates
    \/ GenerateNewsMemeCaption
    \/ GenerateNewsMemeRender
    \/ PuchGenerateMemeRoute
    \/ PuchGenerateMemeNews
    \/ PuchGenerateMemeTemplates
    \/ PuchGenerateMemeCaption
    \/ PuchGenerateMemeRender

Spec == Init /\ [][Next]_vars

-----------------------------------------------------------------------------
(* Properties of the service *)

PipelineRoutes == {"generate_news_meme", "puch_generate_meme"}

PipelineOrder == <<"news", "templates", "caption", "render">>

Awaiting == pc \in {"news", "templates", "caption", "render"}

Title(art) == OptProp(art, K("title"))

Description(art) == OptProp(art, K("description"))

\* C1: in both full pipelines the upstream calls are issued in the order news,
\* templates, caption, render, each at most once and each only when every
\* earlier call has returned a usable result (an article with title and
\* description, a template list, a caption that is not null); the handler
\* awaits the call it issued last; a handler that has responded has no call
\* outstanding; a success response comes only after all four calls, and a
\* failure response carries no partial result.
C1_SequentialFailFast ==
    req.route \in PipelineRoutes =>
        /\ Len(calls) <= Len(PipelineOrder)
        /\ \A k \in 1..Len(calls) : calls[k].api = PipelineOrder[k]
        /\ Awaiting => /\ Len(calls) = Len(replies) + 1
                       /\ calls[Len(calls)].api = pc
                       /\ responses = <<>>
        /\ pc = "done" => /\ Len(calls) = Len(replies)
                          /\ Len(responses) = 1
        /\ Len(calls) >= 2 => /\ news # <<>> /\ article # <<>>
                              /\ Truthy(Title(article[1]))
                              /\ Truthy(Description(article[1]))
        /\ Len(calls) >= 3 => templateIds # <<>>
        /\ Len(calls) >= 4 => caption # <<>> /\ ~caption[1].isNull
        /\ pc = "done" /\ responses[1].success => Len(calls) = 4 /\ memeUrl # <<>>
        /\ pc = "done" /\ ~responses[1].success => responses[1].payload = NoPayload

\* A pipeline that failed at its third step: three calls issued, no render.
C1_Witness ==
    /\ req.route = "generate_news_meme"
    /\ pc = "done"
    /\ ~responses[1].success
    /\ Len(calls) = 3
    /\ calls[3].api = "caption"

ConfigRoutes ==
    {"fetch_indian_news", "generate_meme_caption", "create_meme",
     "generate_news_meme", "puch_generate_meme"}

ConfigMessage == "Missing required environment variables: "

\* The required keys, in their order, whose value is one of vals.
KeysWith(vals) == SelectSeq(Required, LAMBDA key : env[key] \in vals)

\* On a route that checks credentials, with these keys taken as missing: if
\* there are any, the request has failed with the error that lists exactly
\* them and no upstream call was made; if there are none, the request has not
\* failed with that error.
ConfigChecked(missing) ==
    req.route \in ConfigRoutes =>
        IF missing # <<>>
        THEN /\ pc = "done"
             /\ responses = <<Failure(Err(ConfigMessage, missing))>>
             /\ calls = <<>>
        ELSE ~(pc = "done" /\ responses[1].error.message = ConfigMessage)

\* C3 as stated: the missing keys are the keys that are unset.
C3_UnsetKeysListed == ConfigChecked(KeysWith({Undefined}))

\* C3, amended: the missing keys are the keys that are unset or set to the
\* empty string; the check reads process.env at every request.
C3_UnsetOrEmptyKeysListed == ConfigChecked(KeysWith({Undefined, JStr(<<>>)}))

\* After process.env changed, a request fails listing an empty and an unset key.
C3_Witness ==
    /\ req.route = "create_meme"
    /\ env["GEMINI_API_KEY"] = JStr(<<>>)
    /\ env["IMGFLIP_PASSWORD"] = Undefined
    /\ env["NEWSDATA_API_KEY"] # Undefined /\ env["NEWSDATA_API_KEY"] # JStr(<<>>)
    /\ env["IMGFLIP_USERNAME"] # Undefined /\ env["IMGFLIP_USERNAME"] # JStr(<<>>)
    /\ pc = "done"
    /\ responses[1].error = Err(ConfigMessage, <<"GEMINI_API_KEY", "IMGFLIP_PASSWORD">>)
    /\ calls = <<>>

ValidationMessages ==
    {"No news articles found", "No news articles found for topic: ",
     "Invalid article", "Selected article is missing title/description"}

\* The index the request selects: articleIndex, 0 when it has none.
SelectedIndex ==
    CASE req.articleIndex.t = "num" -> req.articleIndex.n.sg * req.articleIndex.n.i
      [] req.articleIndex.t = "str" -> DigitsNat(req.articleIndex.s)
      [] OTHER -> 0

EmptyOrMissing(art, key) ==
    art.t # "obj" \/ GetProp(art, key) = Undefined \/ GetProp(art, key) = JStr(<<>>)

\* The selected index is out of the range of the list, or the article there
\* has an empty or missing title or description.
SelectionFails(list) ==
    \/ SelectedIndex < 0
    \/ SelectedIndex >= Len(list)
    \/ EmptyOrMissing(list[SelectedIndex + 1], K("title"))
    \/ EmptyOrMissing(list[SelectedIndex + 1], K("description"))

\* C4: in both full pipelines, once the news fetch has returned a list in which
\* the selection fails, the request has failed with a validation error and the
\* news fetch is the only upstream call made.
C4_BadSelectionStops ==
    (req.route \in PipelineRoutes /\ news # <<>> /\ SelectionFails(news[1])) =>
        /\ pc = "done"
        /\ Len(calls) = 1
        /\ ~responses[1].success
        /\ responses[1].error.message \in ValidationMessages

\* An index beyond a list that is not empty.
C4_Witness ==
    /\ req.route = "puch_generate_meme"
    /\ news # <<>>
    /\ Len(news[1]) >= 1
    /\ SelectedIndex >= Len(news[1])
    /\ pc = "done"
    /\ responses[1].error.message = "Selected article is missing title/description"

CaptionFailure == Failure(Err("Failed to generate meme caption", <<>>))

\* C5: in both full pipelines, once caption generation has returned null the
\* request has failed with "Failed to generate meme caption" after three calls,
\* none of them the render; a render call is issued only with a caption.
C5_NullCaptionStops ==
    req.route \in PipelineRoutes =>
        /\ (caption # <<>> /\ caption[1].isNull) =>
              /\ pc = "done"
              /\ responses = <<CaptionFailure>>
              /\ Len(calls) = 3
        /\ \A k \in 1..Len(calls) :
              calls[k].api = "render" => caption # <<>> /\ ~caption[1].isNull

\* The model replied with a truncated object: the text does not parse.
C5_Witness ==
    /\ req.route = "generate_news_meme"
    /\ Len(replies) = 3
    /\ replies[3] = HttpJson(GeminiBody(SubSeq(PrefixSource, 1, Len(PrefixSource) - 1)))
    /\ caption = <<NoCaption>>
    /\ responses = <<CaptionFailure>>

\* C6: in /puch_generate_meme a render that yields no URL fails the request, so
\* a success carries a memeUrl that is not empty; in /generate_news_meme a
\* render that yields no URL gives a success whose memeUrl is null.
C6_UrlCheckOnlyInPuch ==
    /\ (req.route = "puch_generate_meme" /\ memeUrl = <<JNull>>) =>
          /\ pc = "done"
          /\ responses = <<Failure(Err("Failed to create meme image", <<>>))>>
    /\ (req.route = "puch_generate_meme" /\ pc = "done" /\ responses[1].success) =>
          /\ responses[1].payload.memeUrl.t = "str"
          /\ responses[1].payload.memeUrl.s # <<>>
    /\ (req.route = "generate_news_meme" /\ memeUrl = <<JNull>>) =>
          /\ pc = "done"
          /\ responses[1].success
          /\ responses[1].payload.memeUrl = JNull

\* The render replied success with an empty URL, to /puch_generate_meme.
C6_Witness ==
    /\ req.route = "puch_generate_meme"
    /\ Len(replies) = 4
    /\ replies[4] = HttpJson(RenderBody(JObj(<< <<K("url"), JStr(<<>>)>> >>)))
    /\ memeUrl = <<JNull>>
    /\ pc = "done"
    /\ ~responses[1].success

\* The IDs of the templates in a reply of the template catalog, as numbers.
IdsReturned(resp) ==
    LET memes == GetProp(GetProp(resp.body, K("data")), K("memes")).kv
    IN  JArr([k \in 1..Len(memes) |-> JNum(StringToNumber(GetProp(memes[k], K("id")).s))])

\* C10: in both full pipelines the caption call is given exactly the IDs of
\* the templates the template fetch of this request returned, and the render
\* call exactly the image and the two texts of the caption returned; a caption
\* is never rejected for its image, in the catalog or not; a failure flag in
\* the reply of the render is reported as the render's error.
C10_ArgumentsPassedUnchecked ==
    req.route \in PipelineRoutes =>
        /\ Len(calls) >= 3 => calls[3].availableTemplates = IdsReturned(replies[2])
        /\ Len(calls) >= 4 =>
              /\ calls[4].templateId = JNum(caption[1].cap.image)
              /\ calls[4].template_id = NumToString(caption[1].cap.image)
              /\ calls[4].text0 = JStr(caption[1].cap.topText)
              /\ calls[4].text1 = JStr(caption[1].cap.bottomText)
        /\ (caption # <<>> /\ ~caption[1].isNull) => Len(calls) = 4
        /\ (pc = "done" /\ Len(replies) = 4 /\ replies[4].jsonOk
              /\ GetProp(replies[4].body, K("success")) = JBool(FALSE)) =>
              /\ ~responses[1].success
              /\ responses[1].error.message = "Imgflip API error: "

\* A caption for template 999, which the catalog did not return, rendered.
C10_Witness ==
    /\ req.route = "generate_news_meme"
    /\ Len(calls) = 4
    /\ calls[3].availableTemplates = JArr(<<JNum(IntNum(1)), JNum(IntNum(22))>>)
    /\ caption[1].cap.image = IntNum(999)
    /\ calls[4].templateId = JNum(IntNum(999))
    /\ pc = "done"
    /\ responses[1].error.message = "Imgflip API error: "

-----------------------------------------------------------------------------
(* Properties of caption parsing *)

Count(text, c) == Cardinality({k \in 1..Len(text) : text[k] = c})

\* A text without a quote in which the braces do not pair is no JSON text.
UnbalancedBraces(text) ==
    /\ \A k \in 1..Len(text) : text[k] # QUOTE
    /\ Count(text, "{") # Count(text, "}")

\* C7: every caption that parsing returns has an image that is a finite
\* integer, and two texts.
C7_CaptionWellTyped ==
    (parsed # <<>> /\ ~parsed[1].thrown /\ ~parsed[1].res.isNull) =>
        IsFiniteInteger(parsed[1].res.cap.image)

\* C8: parseMemeCaption returns, a caption or null, and never throws; on a
\* truncated object and on a text with unbalanced braces it returns null.
C8_NeverRaises ==
    parsed # <<>> =>
        /\ ~parsed[1].thrown
        /\ (orig.kind = "prefix" \/ UnbalancedBraces(raw)) => parsed[1].res.isNull

\* A truncated object was parsed: null.
C8_Witness ==
    /\ parsed # <<>>
    /\ orig.kind = "prefix"
    /\ Len(raw) > 10
    /\ parsed[1].res.isNull

\* C9: parsing the serialization of a valid caption, fenced or not, returns
\* that caption, and so does parsing the serialization of the result.
C9_RoundTrip ==
    (parsed # <<>> /\ orig.kind = "caption" /\ IsValidCaption(orig.cap)) =>
        parsed[1].res = SomeCaption(orig.cap)

=============================================================================
